---- MODULE Spec2Model ----
(***************************************************************************)
(* A model of the file-share server (src/server.js): the Room collection   *)
(* (mongoose), the GridFS bucket, the express route handlers, the          *)
(* socket.io handlers and the hourly cleanup job.  Every handler is an     *)
(* async function; it is split into one action per await, so that other    *)
(* handlers interleave exactly where the event loop lets them.  The        *)
(* browser (src/public/js/app.js) is modelled as far as it drives the      *)
(* server: an event a socket is sent is handled by its browser at once,    *)
(* and an event a browser emits is handled by the server at once.          *)
(***************************************************************************)
EXTENDS Integers, Sequences, FiniteSets, TLC

VARIABLES
    rooms,      \* the Room collection: a sequence of documents, _id = position
    bucket,     \* the GridFS bucket 'uploads': a set of stored files
    removed,    \* history: the filenames whose stored file has been deleted
    now,        \* Date.now(), in units of 12 hours
    emitted,    \* the socket.io events the server has emitted, in order
    join,       \* POST /api/rooms requests
    up,         \* POST /api/rooms/:roomCode/upload requests
    del,        \* DELETE /api/rooms/:roomCode/files/:filename requests
    clr,        \* DELETE /api/admin/clear-all/:roomCode requests
    dl,         \* GET /api/files/:filename requests
    swp,        \* the cleanup job started by setInterval
    members,    \* io.sockets.adapter.rooms: the socket ids joined to each room code
    inbox,      \* the events each socket has been sent, in order
    client,     \* the browser behind each socket (src/public/js/app.js)
    txt,        \* 'send-text' handlers of the server
    get,        \* GET /api/rooms/:roomCode requests
    live        \* history: per room code, the filenames saved by an upload and
                \* not removed by a delete, a cleanup or a clear-all since

hubVars == <<members, inbox, client, txt, get, live>>

vars == <<rooms, bucket, removed, now, emitted, join, up, del, clr, dl, swp,
          members, inbox, client, txt, get, live>>

-----------------------------------------------------------------------------
(* Bounds of the model *)

NumJoin == 2        \* concurrent POST /api/rooms requests
NumUp == 1          \* concurrent upload requests
MaxBatch == 2       \* files of one upload request
MaxSweeps == 2      \* runs of the cleanup job
MaxTime == 3        \* the clock stops advancing here
NumConn == 2        \* connected sockets, each with a browser behind it
NumSend == 2        \* 'send-text' events served at the same time
NumTxt == 1         \* concurrent 'send-text' handlers

(* Program constants *)

RAMRAM == "RAMRAM"
RAM123 == "RAM123"
NormalCodes == {"AB12CD", "XY99ZZ"}
RoomCodes == NormalCodes \cup {RAM123, RAMRAM}

\* socket.id of every connected socket; 0 stands for a caller without a socket
Conns == 1..NumConn

\* what a user types into the shared text area
Texts == {"hello", "bye"}

-----------------------------------------------------------------------------
(* socket.io: rooms of sockets and the delivery of events *)

\* a room that is always reported empty, the mutant of getUsersInRoom
NoUsersInRoom(roomCode) == {}

\* getUsersInRoom(roomCode): Array.from(io.sockets.adapter.rooms.get(roomCode))
\* or [] for a room no socket has joined
getUsersInRoom(roomCode) == members[roomCode]

\* the broadcast to every connected socket, the mutant of Recipients
EveryConnection(to, except) == Conns

\* the sockets an emit reaches: io.emit (to = "*") every socket,
\* io.to(roomCode) (except = 0) the sockets joined to roomCode,
\* socket.to(roomCode) the same without the sending socket
Recipients(to, except) ==
    IF to = "*" THEN {c \in Conns : client[c].connected}
                ELSE members[to] \ {except}

Event(ev, to, payload) == [ev |-> ev, to |-> to, payload |-> payload]

\* the inboxes after e has been sent to every socket, the mutant of Received
ReceivedByAll(inb, rcpt, e) ==
    [c \in Conns |-> Append(inb[c], e)]

\* the inboxes after e has been sent to the sockets rcpt
Received(inb, rcpt, e) ==
    [c \in Conns |-> IF c \in rcpt THEN Append(inb[c], e) ELSE inb[c]]

\* the filenames of the items addFileToList appends for a list of file records
ShownFiles(files) == [k \in 1..Len(files) |-> files[k].filename]

\* element.remove() for every item of the file list with the filename
WithoutFile(shown, filename) == SelectSeq(shown, LAMBDA f : f # filename)

\* document.getElementById(`user-${userId}`)?.remove(): the first item of
\* the user list with the socket id leaves it
WithoutUser(users, userId) ==
    IF \E k \in 1..Len(users) : users[k] = userId
    THEN LET k == CHOOSE j \in 1..Len(users) :
                     /\ users[j] = userId
                     /\ \A i \in 1..(j - 1) : users[i] # userId
         IN SubSeq(users, 1, k - 1) \o SubSeq(users, k + 1, Len(users))
    ELSE users

RECURSIVE ListOf(_)
\* Array.from(room): the socket ids of a room as a list (here in ascending
\* order; the order of the list plays no part in what follows)
ListOf(ids) ==
    IF ids = {} THEN <<>>
    ELSE LET least == CHOOSE c \in ids : \A d \in ids : c <= d
         IN <<least>> \o ListOf(ids \ {least})

\* the browsers after their sockets rcpt were sent e:
\* this.socket.on('receive-text', data => sharedText.value = data.text);
\* on 'new-files' the files are appended to the file list if the browser is
\* in a room; on 'file-deleted' the items with the filename are removed if
\* the browser is in the room of the event; 'all-files-cleared' empties the
\* list; 'user-joined' appends the socket id to the user list, 'user-left'
\* removes it, 'users-in-room' replaces the list
Handled(cl, rcpt, e) ==
    [c \in Conns |->
        IF c \notin rcpt THEN cl[c]
        ELSE IF e.ev = "receive-text"
        THEN [cl[c] EXCEPT !.text = e.payload.text]
        ELSE IF e.ev = "new-files" /\ cl[c].currentRoom # ""
        THEN [cl[c] EXCEPT !.files = @ \o ShownFiles(e.payload)]
        ELSE IF e.ev = "file-deleted" /\ cl[c].currentRoom = e.payload.roomCode
        THEN [cl[c] EXCEPT !.files = WithoutFile(@, e.payload.filename)]
        ELSE IF e.ev = "all-files-cleared"
        THEN [cl[c] EXCEPT !.files = <<>>]
        ELSE IF e.ev = "user-joined"
        THEN [cl[c] EXCEPT !.users = Append(@, e.payload)]
        ELSE IF e.ev = "user-left"
        THEN [cl[c] EXCEPT !.users = WithoutUser(@, e.payload)]
        ELSE IF e.ev = "users-in-room"
        THEN [cl[c] EXCEPT !.users = ListOf(e.payload)]
        ELSE cl[c]]

\* (io | socket).to(to).emit(ev, payload)
Emit(ev, to, except, payload) ==
    LET e == Event(ev, to, payload)
        rcpt == Recipients(to, except)
    IN
    /\ emitted' = Append(emitted, e)
    /\ inbox' = Received(inbox, rcpt, e)
    /\ client' = Handled(client, rcpt, e)

-----------------------------------------------------------------------------
(* The Room collection *)

\* new Room({ roomCode }): the schema defaults
NewRoom(roomCode) ==
    [roomCode |-> roomCode, createdAt |-> now, files |-> <<>>, texts |-> <<>>, v |-> 0]

\* a findOne that falls back on the first document, the mutant of FindOne
FindOneOrFirst(roomCode) ==
    IF \E i \in 1..Len(rooms) : rooms[i].roomCode = roomCode
    THEN CHOOSE i \in 1..Len(rooms) : rooms[i].roomCode = roomCode
    ELSE IF Len(rooms) > 0 THEN 1 ELSE 0

\* Room.findOne({ roomCode }): the _id of the first matching document, 0 for null
FindOne(roomCode) ==
    IF \E i \in 1..Len(rooms) : rooms[i].roomCode = roomCode
    THEN CHOOSE i \in 1..Len(rooms) :
            /\ rooms[i].roomCode = roomCode
            /\ \A j \in 1..(i-1) : rooms[j].roomCode # roomCode
    ELSE 0

\* the insert without the unique index on roomCode
InsertRoomNoIndex(roomCode) ==
    [ok |-> TRUE, rooms |-> Append(rooms, NewRoom(roomCode))]

\* room.save() of a new document: the unique index on roomCode rejects a
\* second document with the same code (E11000 duplicate key)
InsertRoom(roomCode) ==
    IF \E i \in 1..Len(rooms) : rooms[i].roomCode = roomCode
    THEN [ok |-> FALSE, rooms |-> rooms]
    ELSE [ok |-> TRUE, rooms |-> Append(rooms, NewRoom(roomCode))]

\* the files of one room only, the mutant of FlatFiles
FlatFilesOfFirst(rs, i) ==
    IF i > Len(rs) THEN <<>> ELSE rs[i].files

RECURSIVE FlatFiles(_, _)
\* allRooms.flatMap(room => room.files)
FlatFiles(rs, i) ==
    IF i > Len(rs) THEN <<>> ELSE rs[i].files \o FlatFiles(rs, i + 1)

-----------------------------------------------------------------------------
(* POST /api/rooms *)

JoinIdle == [pc |-> "idle", by |-> 0, roomCode |-> "", id |-> 0, found |-> FALSE,
             status |-> 0, isAdmin |-> FALSE, files |-> <<>>, texts |-> <<>>]

\* who can send POST /api/rooms: any caller without a browser (0), and a
\* browser showing its home screen, where joinRoom() is bound to the Join
\* and Create buttons; the request is sent before currentRoom is set
JoinCallers ==
    {0} \cup {c \in Conns : client[c].connected /\ client[c].currentRoom = ""}

\* const { roomCode } = req.body; let room = await Room.findOne({ roomCode })
JoinFind(p) ==
    /\ join[p].pc = "idle"
    /\ \E roomCode \in RoomCodes, by \in JoinCallers :
          LET id == FindOne(roomCode) IN
          join' = [join EXCEPT ![p] = [@ EXCEPT
                      !.pc = IF id = 0 THEN "save" ELSE "respond",
                      !.by = by,
                      !.roomCode = roomCode, !.id = id, !.found = (id # 0),
                      !.files = IF id = 0 THEN <<>> ELSE rooms[id].files,
                      !.texts = IF id = 0 THEN <<>> ELSE rooms[id].texts]]
    /\ UNCHANGED <<rooms, bucket, removed, now, emitted, up, del, clr, dl, swp, hubVars>>

\* if (!room) { room = new Room({ roomCode }); await room.save(); }
\* a rejected save goes to the catch: res.status(500)
JoinSave(p) ==
    /\ join[p].pc = "save"
    /\ LET r == InsertRoom(join[p].roomCode) IN
          /\ rooms' = r.rooms
          /\ join' = [join EXCEPT ![p] =
                IF r.ok THEN [@ EXCEPT !.pc = "respond", !.id = Len(r.rooms)]
                        ELSE [@ EXCEPT !.pc = "done", !.status = 500]]
    /\ UNCHANGED <<bucket, removed, now, emitted, up, del, clr, dl, swp, hubVars>>

\* if (roomCode === 'RAMRAM') { allRooms = await Room.find({}); ... isAdmin: true }
\* else res.json({ success: true, room, isAdmin: false })
JoinRespond(p) ==
    /\ join[p].pc = "respond"
    /\ join' = [join EXCEPT ![p] = [@ EXCEPT
                  !.pc = "done", !.status = 200,
                  !.isAdmin = (join[p].roomCode = RAMRAM),
                  !.files = IF join[p].roomCode = RAMRAM
                            THEN FlatFiles(rooms, 1) ELSE join[p].files]]
    /\ UNCHANGED <<rooms, bucket, removed, now, emitted, up, del, clr, dl, swp, hubVars>>

-----------------------------------------------------------------------------
(* The GridFS bucket *)

\* a find that only returns the stored files some room lists, the mutant of
\* BucketFind
BucketFindListed(filename) ==
    IF \E r \in 1..Len(rooms) : \E k \in 1..Len(rooms[r].files) :
          rooms[r].files[k].filename = filename
    THEN {b \in bucket : b.filename = filename}
    ELSE {}

\* gridfsBucket.find({ filename }).toArray()
BucketFind(filename) == {b \in bucket : b.filename = filename}

\* the stored file written for the first file of the request, whatever file
\* the loop is at
WrongBufferBlob(uniqueName, files, i, roomCode) ==
    [filename |-> uniqueName, data |-> files[1].buffer,
     originalName |-> files[i].originalname, roomCode |-> roomCode]

\* bufferStream.end(file.buffer); bufferStream.pipe(openUploadStream(uniqueName,
\* { metadata: { originalName, roomCode } })): the stored file of req.files[i]
UploadBlob(uniqueName, files, i, roomCode) ==
    [filename |-> uniqueName, data |-> files[i].buffer,
     originalName |-> files[i].originalname, roomCode |-> roomCode]

\* Date.now() + '-' + Math.round(Math.random() * 1E9) + '-' + file.originalname.
\* The random component is drawn so that no name is generated twice: the
\* name of the i-th file of request p carries <<p, i>>.
UniqueName(p, i, originalname) == <<now, <<p, i>>, originalname>>

-----------------------------------------------------------------------------
(* multer({ storage: memoryStorage(), limits: { fileSize: 10 MiB } }) *)

FileSizeLimit == 10 * 1024 * 1024

\* the files a request may carry
InputFiles ==
    { [originalname |-> "report.pdf", buffer |-> "d1", size |-> 2048],
      [originalname |-> "a.txt",      buffer |-> "d2", size |-> FileSizeLimit - 1],
      [originalname |-> "big.bin",    buffer |-> "d1", size |-> FileSizeLimit],
      [originalname |-> "huge.bin",   buffer |-> "d2", size |-> FileSizeLimit + 1] }

Batches == UNION {[1..n -> InputFiles] : n \in 0..MaxBatch}

\* a limit that lets a file of exactly the limit through
OverLimitOnly(file) == file.size > FileSizeLimit

\* busboy stops a file part, and multer fails the request with LIMIT_FILE_SIZE,
\* once the part has reached limits.fileSize bytes
HitsLimit(file) == file.size >= FileSizeLimit

-----------------------------------------------------------------------------
(* POST /api/rooms/:roomCode/upload *)

UpIdle == [pc |-> "idle", by |-> 0, roomCode |-> "", files |-> <<>>, id |-> 0, i |-> 1,
           uploaded |-> <<>>, status |-> 0, error |-> "", failedAt |-> 0]

\* the request of caller `by` for roomCode after upload.array('files'), up to
\* const room = await Room.findOne({ roomCode })
UpAccepted(p, by, roomCode, files) ==
    LET id == FindOne(roomCode)
        base == [up[p] EXCEPT !.by = by, !.roomCode = roomCode, !.files = files]
    IN
    IF \E k \in 1..Len(files) : HitsLimit(files[k])
    THEN [base EXCEPT !.pc = "done", !.status = 500, !.error = "LIMIT_FILE_SIZE"]
    ELSE IF Len(files) = 0
    THEN [base EXCEPT !.pc = "done", !.status = 400, !.error = "No files"]
    ELSE IF id = 0
    THEN [base EXCEPT !.pc = "done", !.status = 404, !.error = "Room not found"]
    ELSE [base EXCEPT !.pc = "write", !.id = id]

\* an upload sent by a caller without a browser (0), for any room code
UpStart(p) ==
    /\ up[p].pc = "idle"
    /\ IF p = 1 THEN TRUE ELSE up[p - 1].pc # "idle"
    /\ \E roomCode \in RoomCodes, files \in Batches :
          up' = [up EXCEPT ![p] = UpAccepted(p, 0, roomCode, files)]
    /\ UNCHANGED <<rooms, bucket, removed, now, emitted, join, del, clr, dl, swp, hubVars>>

\* uploadFiles() of a browser in a room: at least one file is selected and
\* posted to /api/rooms/${this.currentRoom}/upload
ClientUpload(p) ==
    /\ up[p].pc = "idle"
    /\ IF p = 1 THEN TRUE ELSE up[p - 1].pc # "idle"
    /\ \E c \in Conns, files \in Batches :
          /\ client[c].connected
          /\ client[c].currentRoom # ""
          /\ Len(files) > 0
          /\ up' = [up EXCEPT ![p] = UpAccepted(p, c, client[c].currentRoom, files)]
    /\ UNCHANGED <<rooms, bucket, removed, now, emitted, join, del, clr, dl, swp, hubVars>>

\* one turn of for (const file of files): the stored file is written and
\* fileData is pushed on room.files and uploadedFiles
UpWrite(p) ==
    /\ up[p].pc = "write"
    /\ LET u == up[p]
           file == u.files[u.i]
           uniqueName == UniqueName(p, u.i, file.originalname)
           fileData == [filename |-> uniqueName, originalName |-> file.originalname,
                        uploadTime |-> now, fileSize |-> file.size]
       IN
       /\ bucket' = bucket \cup {UploadBlob(uniqueName, u.files, u.i, u.roomCode)}
       /\ up' = [up EXCEPT ![p] = [u EXCEPT
                    !.uploaded = Append(u.uploaded, fileData),
                    !.i = u.i + 1,
                    !.pc = IF u.i = Len(u.files) THEN "save" ELSE "write"]]
    /\ UNCHANGED <<rooms, removed, now, emitted, join, del, clr, dl, swp, hubVars>>

\* an upload that goes on after a failed write as if the file were stored,
\* the mutant of UpWriteFails
UpWriteFailsAndPushes(p) ==
    /\ up[p].pc = "write"
    /\ LET u == up[p]
           file == u.files[u.i]
           fileData == [filename |-> UniqueName(p, u.i, file.originalname),
                        originalName |-> file.originalname,
                        uploadTime |-> now, fileSize |-> file.size]
       IN
       up' = [up EXCEPT ![p] = [u EXCEPT
                 !.uploaded = Append(u.uploaded, fileData),
                 !.i = u.i + 1,
                 !.pc = IF u.i = Len(u.files) THEN "save" ELSE "write"]]
    /\ UNCHANGED <<rooms, bucket, removed, now, emitted, join, del, clr, dl, swp, hubVars>>

\* the upload stream emits 'error': the promise rejects, the catch answers 500
UpWriteFails(p) ==
    /\ up[p].pc = "write"
    /\ up' = [up EXCEPT ![p] = [@ EXCEPT !.pc = "done", !.status = 500,
                                         !.error = "upload stream",
                                         !.failedAt = up[p].i]]
    /\ UNCHANGED <<rooms, bucket, removed, now, emitted, join, del, clr, dl, swp, hubVars>>

\* the filenames of a list of file records
Names(files) == {files[k].filename : k \in 1..Len(files)}

\* await room.save() after room.files.push(...): a $push of the new elements
\* (the version is incremented, not checked)
UpSave(p) ==
    /\ up[p].pc = "save"
    /\ LET u == up[p] IN
       /\ rooms' = [rooms EXCEPT ![u.id] = [@ EXCEPT
                       !.files = @ \o u.uploaded, !.v = @ + 1]]
       /\ live' = [live EXCEPT ![u.roomCode] = @ \cup Names(u.uploaded)]
       /\ up' = [up EXCEPT ![p] = [u EXCEPT !.pc = "emit"]]
    /\ UNCHANGED <<bucket, removed, now, emitted, join, del, clr, dl, swp,
                   members, inbox, client, txt, get>>

\* io.to(roomCode).emit('new-files', { files: uploadedFiles });
\* res.json({ success: true, files: uploadedFiles })
UpEmit(p) ==
    /\ up[p].pc = "emit"
    /\ Emit("new-files", up[p].roomCode, 0, up[p].uploaded)
    /\ up' = [up EXCEPT ![p] = [@ EXCEPT !.pc = "done", !.status = 200]]
    /\ UNCHANGED <<rooms, bucket, removed, now, join, del, clr, dl, swp,
                   members, txt, get, live>>

\* room.save() rejects: the catch answers 500
UpSaveFails(p) ==
    /\ up[p].pc = "save"
    /\ up' = [up EXCEPT ![p] = [@ EXCEPT !.pc = "done", !.status = 500,
                                         !.error = "save"]]
    /\ UNCHANGED <<rooms, bucket, removed, now, emitted, join, del, clr, dl, swp, hubVars>>

-----------------------------------------------------------------------------
(* GET /api/files/:filename *)

DlIdle == [pc |-> "idle", filename |-> <<>>, status |-> 0, data |-> ""]

\* every filename a room lists or the bucket stores or stored
KnownNames ==
    {b.filename : b \in bucket} \cup removed
      \cup UNION {{rooms[r].files[k].filename : k \in 1..Len(rooms[r].files)} :
                     r \in 1..Len(rooms)}

\* const files = await gridfsBucket.find({ filename }).toArray();
\* none: 404 'File not found'
DlFind ==
    /\ dl.pc = "idle"
    /\ \E filename \in KnownNames :
          dl' = IF BucketFind(filename) = {}
                THEN [dl EXCEPT !.pc = "done", !.filename = filename, !.status = 404]
                ELSE [dl EXCEPT !.pc = "stream", !.filename = filename]
    /\ UNCHANGED <<rooms, bucket, removed, now, emitted, join, up, del, clr, swp, hubVars>>

\* gridfsBucket.openDownloadStreamByName(filename).pipe(res); a file deleted
\* since the find makes the stream fail
DlStream ==
    /\ dl.pc = "stream"
    /\ dl' = IF BucketFind(dl.filename) = {}
             THEN [dl EXCEPT !.pc = "done", !.status = 500]
             ELSE [dl EXCEPT !.pc = "done", !.status = 200,
                     !.data = (CHOOSE b \in BucketFind(dl.filename) : TRUE).data]
    /\ UNCHANGED <<rooms, bucket, removed, now, emitted, join, up, del, clr, swp, hubVars>>

-----------------------------------------------------------------------------
(* DELETE /api/rooms/:roomCode/files/:filename *)

\* a save that overwrites whatever the document has become, the mutant of
\* VersionMatches
VersionIgnored(id, v) == TRUE

\* the condition a save that assigns room.files puts on the update: the
\* document still has the version it was read at
VersionMatches(id, v) == rooms[id].v = v

DelIdle == [pc |-> "idle", by |-> 0, roomCode |-> "", filename |-> <<>>, id |-> 0, v |-> 0,
            files |-> <<>>, status |-> 0, error |-> "",
            hadBlob |-> FALSE, hadRecord |-> FALSE]

\* a filter that keeps every record, the mutant of FilterOut
FilterNothing(files, filename) == files

\* room.files.filter(f => f.filename !== filename)
FilterOut(files, filename) ==
    SelectSeq(files, LAMBDA f : f.filename # filename)

HasRecord(id, filename) ==
    \E k \in 1..Len(rooms[id].files) : rooms[id].files[k].filename = filename

\* the filenames a caller can have learnt: those some room lists and those
\* a 'new-files' event carried
ListedNames ==
    UNION {Names(rooms[r].files) : r \in 1..Len(rooms)}
      \cup UNION {Names(emitted[k].payload) :
                    k \in {j \in 1..Len(emitted) : emitted[j].ev = "new-files"}}

\* who can send the DELETE and for which room: any caller without a browser
\* (0) for any room code, and a browser in a room (deleteFile(filename,
\* this.currentRoom, ...) behind the delete button of a listed file)
DelCalls ==
    {<<0, roomCode>> : roomCode \in RoomCodes}
      \cup {<<c, client[c].currentRoom>> :
                c \in {d \in Conns : client[d].connected /\ client[d].currentRoom # ""}}

\* const room = await Room.findOne({ roomCode }); none: 404
DelStart ==
    /\ del.pc = "idle"
    /\ \E call \in DelCalls, filename \in ListedNames :
          LET roomCode == call[2]
              id == FindOne(roomCode)
              base == [del EXCEPT !.by = call[1], !.roomCode = roomCode,
                                  !.filename = filename]
          IN
          del' = IF id = 0
                 THEN [base EXCEPT !.pc = "done", !.status = 404,
                                   !.error = "Room not found"]
                 ELSE [base EXCEPT !.pc = "blob", !.id = id, !.v = rooms[id].v,
                                   !.files = rooms[id].files,
                                   !.hadBlob = (BucketFind(filename) # {}),
                                   !.hadRecord = HasRecord(id, filename)]
    /\ UNCHANGED <<rooms, bucket, removed, now, emitted, join, up, clr, dl, swp, hubVars>>

\* const files = await gridfsBucket.find({ filename }).toArray();
\* if (files.length > 0) await gridfsBucket.delete(files[0]._id)
DelBlob ==
    /\ del.pc = "blob"
    /\ bucket' = bucket \ BucketFind(del.filename)
    /\ removed' = IF BucketFind(del.filename) = {} THEN removed
                  ELSE removed \cup {del.filename}
    /\ del' = [del EXCEPT !.pc = "save"]
    /\ UNCHANGED <<rooms, now, emitted, join, up, clr, dl, swp, hubVars>>

\* the find or the delete rejects: the catch answers 500
DelBlobFails ==
    /\ del.pc = "blob"
    /\ del' = [del EXCEPT !.pc = "done", !.status = 500, !.error = "bucket"]
    /\ UNCHANGED <<rooms, bucket, removed, now, emitted, join, up, clr, dl, swp, hubVars>>

\* room.files = room.files.filter(...); await room.save(): an unchanged array
\* writes nothing; a changed one is a $set of the whole array under the
\* version the document was read at (VersionError otherwise)
DelSave ==
    /\ del.pc = "save"
    /\ LET kept == FilterOut(del.files, del.filename) IN
       IF kept = del.files
       THEN /\ del' = [del EXCEPT !.pc = "done", !.status = 200]
            /\ UNCHANGED <<rooms, live>>
       ELSE IF ~VersionMatches(del.id, del.v)
       THEN /\ del' = [del EXCEPT !.pc = "done", !.status = 500,
                                  !.error = "VersionError"]
            /\ UNCHANGED <<rooms, live>>
       ELSE /\ rooms' = [rooms EXCEPT ![del.id] = [@ EXCEPT
                            !.files = kept, !.v = @ + 1]]
            /\ live' = [live EXCEPT ![del.roomCode] = @ \ {del.filename}]
            /\ del' = [del EXCEPT !.pc = "done", !.status = 200]
    /\ UNCHANGED <<bucket, removed, now, emitted, join, up, clr, dl, swp,
                   members, inbox, client, txt, get>>

\* room.save() rejects: the catch answers 500
DelSaveFails ==
    /\ del.pc = "save"
    /\ del' = [del EXCEPT !.pc = "done", !.status = 500, !.error = "save"]
    /\ UNCHANGED <<rooms, bucket, removed, now, emitted, join, up, clr, dl, swp, hubVars>>

-----------------------------------------------------------------------------
(* DELETE /api/admin/clear-all/:roomCode *)

ClrIdle == [pc |-> "idle", roomCode |-> "", status |-> 0, before |-> {}]

\* a check that also lets the other reserved code through
AuthorizedReserved(roomCode) == roomCode \in {RAMRAM, RAM123}

\* if (roomCode !== 'RAMRAM') return res.status(403)
Authorized(roomCode) == roomCode = RAMRAM

\* the security check, then await gridfsBucket.drop()
ClrStart ==
    /\ clr.pc = "idle"
    /\ \E roomCode \in RoomCodes :
          IF ~Authorized(roomCode)
          THEN /\ clr' = [clr EXCEPT !.pc = "done", !.roomCode = roomCode,
                                     !.status = 403]
               /\ UNCHANGED <<bucket, removed>>
          ELSE /\ clr' = [clr EXCEPT !.pc = "update", !.roomCode = roomCode,
                                     !.before = KnownNames \ removed]
               /\ bucket' = {}
               /\ removed' = removed \cup {b.filename : b \in bucket}
    /\ UNCHANGED <<rooms, now, emitted, join, up, del, dl, swp, hubVars>>

\* gridfsBucket.drop() rejects: the catch answers 500
ClrDropFails ==
    /\ clr.pc = "idle"
    /\ clr' = [clr EXCEPT !.pc = "done", !.roomCode = RAMRAM, !.status = 500]
    /\ UNCHANGED <<rooms, bucket, removed, now, emitted, join, up, del, dl, swp, hubVars>>

\* an update that empties the texts too, the mutant of ClearFiles
ClearFilesAndTexts(room) == [room EXCEPT !.files = <<>>, !.texts = <<>>]

\* { $set: { files: [] } } on one room document
ClearFiles(room) == [room EXCEPT !.files = <<>>]

\* await Room.updateMany({}, { $set: { files: [] } }): versions untouched
ClrUpdate ==
    /\ clr.pc = "update"
    /\ rooms' = [r \in 1..Len(rooms) |-> ClearFiles(rooms[r])]
    /\ live' = [c \in RoomCodes |-> {}]
    /\ clr' = [clr EXCEPT !.pc = "respond"]
    /\ UNCHANGED <<bucket, removed, now, emitted, join, up, del, dl, swp,
                   members, inbox, client, txt, get>>

\* Room.updateMany rejects: the catch answers 500
ClrUpdateFails ==
    /\ clr.pc = "update"
    /\ clr' = [clr EXCEPT !.pc = "done", !.status = 500]
    /\ UNCHANGED <<rooms, bucket, removed, now, emitted, join, up, del, dl, swp, hubVars>>

\* io.emit('all-files-cleared'); res.json({ success: true })
ClrRespond ==
    /\ clr.pc = "respond"
    /\ Emit("all-files-cleared", "*", 0, <<>>)
    /\ clr' = [clr EXCEPT !.pc = "done", !.status = 200]
    /\ UNCHANGED <<rooms, bucket, removed, now, join, up, del, dl, swp,
                   members, txt, get, live>>

-----------------------------------------------------------------------------
(* The cleanup job: setInterval(async () => { ... }, CLEANUP_INTERVAL) *)

FILE_LIFETIME == 2      \* 24 hours, in units of 12 hours

SwpIdle == [pc |-> "idle", snap |-> <<>>, now |-> 0, r |-> 1, f |-> 1,
            newFilesList |-> <<>>, filesChanged |-> FALSE, runs |-> 0,
            error |-> "", failedAt |-> 0]

\* if (room.roomCode === 'RAM123' || room.roomCode === 'RAMRAM') continue
Exempt(roomCode) == roomCode = RAM123 \/ roomCode = RAMRAM

\* a test that also expires a file whose age is exactly the lifetime, the
\* mutant of Expired
ExpiredAtLifetime(file, t) == t - file.uploadTime >= FILE_LIFETIME

\* fileAge = now - new Date(file.uploadTime).getTime(); fileAge > FILE_LIFETIME
Expired(file, t) == t - file.uploadTime > FILE_LIFETIME

\* const rooms = await Room.find({}); const now = Date.now()
SwpStart ==
    /\ swp.pc \in {"idle", "done"}
    /\ swp.runs < MaxSweeps
    /\ swp' = [SwpIdle EXCEPT !.pc = "scan", !.snap = rooms, !.now = now,
                              !.runs = swp.runs + 1]
    /\ UNCHANGED <<rooms, bucket, removed, now, emitted, join, up, del, clr, dl, hubVars>>

\* a special room is skipped
SwpSkip ==
    /\ swp.pc = "scan"
    /\ swp.r <= Len(swp.snap)
    /\ Exempt(swp.snap[swp.r].roomCode)
    /\ swp' = [swp EXCEPT !.r = @ + 1]
    /\ UNCHANGED <<rooms, bucket, removed, now, emitted, join, up, del, clr, dl, hubVars>>

\* one turn of for (const file of room.files): an expired file's stored file
\* is looked up and, if there, deleted; any other file is kept
SwpFile ==
    /\ swp.pc = "scan"
    /\ swp.r <= Len(swp.snap)
    /\ ~Exempt(swp.snap[swp.r].roomCode)
    /\ swp.f <= Len(swp.snap[swp.r].files)
    /\ LET file == swp.snap[swp.r].files[swp.f] IN
       IF Expired(file, swp.now)
       THEN /\ bucket' = bucket \ BucketFind(file.filename)
            /\ removed' = IF BucketFind(file.filename) = {} THEN removed
                          ELSE removed \cup {file.filename}
            /\ swp' = [swp EXCEPT !.f = @ + 1, !.filesChanged = TRUE]
       ELSE /\ swp' = [swp EXCEPT !.f = @ + 1,
                                  !.newFilesList = Append(@, file)]
            /\ UNCHANGED <<bucket, removed>>
    /\ UNCHANGED <<rooms, now, emitted, join, up, del, clr, dl, hubVars>>

\* the find or the delete of an expired file rejects: the job's catch logs
\* the error and the job is over
SwpFileFails ==
    /\ swp.pc = "scan"
    /\ swp.r <= Len(swp.snap)
    /\ ~Exempt(swp.snap[swp.r].roomCode)
    /\ swp.f <= Len(swp.snap[swp.r].files)
    /\ Expired(swp.snap[swp.r].files[swp.f], swp.now)
    /\ swp' = [swp EXCEPT !.pc = "done", !.error = "bucket", !.failedAt = swp.r]
    /\ UNCHANGED <<rooms, bucket, removed, now, emitted, join, up, del, clr, dl, hubVars>>

\* if (filesChanged) { room.files = newFilesList; await room.save();
\* io.to(room.roomCode).emit('files-expired') }: a $set of the whole array
\* under the version the room was read at; a VersionError ends the job
SwpSave ==
    /\ swp.pc = "scan"
    /\ swp.r <= Len(swp.snap)
    /\ ~Exempt(swp.snap[swp.r].roomCode)
    /\ swp.f > Len(swp.snap[swp.r].files)
    /\ LET next == [swp EXCEPT !.r = @ + 1, !.f = 1, !.newFilesList = <<>>,
                               !.filesChanged = FALSE]
       IN
       IF ~swp.filesChanged
       THEN /\ swp' = next
            /\ UNCHANGED <<rooms, emitted, inbox, client, live>>
       ELSE IF ~VersionMatches(swp.r, swp.snap[swp.r].v)
       THEN /\ swp' = [swp EXCEPT !.pc = "done", !.error = "VersionError",
                                  !.failedAt = swp.r]
            /\ UNCHANGED <<rooms, emitted, inbox, client, live>>
       ELSE /\ rooms' = [rooms EXCEPT ![swp.r] = [@ EXCEPT
                            !.files = swp.newFilesList, !.v = @ + 1]]
            /\ live' = [live EXCEPT ![swp.snap[swp.r].roomCode] =
                            @ \ (Names(swp.snap[swp.r].files)
                                    \ Names(swp.newFilesList))]
            /\ Emit("files-expired", swp.snap[swp.r].roomCode, 0, <<>>)
            /\ swp' = next
    /\ UNCHANGED <<bucket, removed, now, join, up, del, clr, dl,
                   members, txt, get>>

\* room.save() rejects: the job's catch logs the error and the job is over
SwpSaveFails ==
    /\ swp.pc = "scan"
    /\ swp.r <= Len(swp.snap)
    /\ ~Exempt(swp.snap[swp.r].roomCode)
    /\ swp.f > Len(swp.snap[swp.r].files)
    /\ swp.filesChanged
    /\ swp' = [swp EXCEPT !.pc = "done", !.error = "save", !.failedAt = swp.r]
    /\ UNCHANGED <<rooms, bucket, removed, now, emitted, join, up, del, clr, dl, hubVars>>

\* the loop over the rooms is over
SwpEnd ==
    /\ swp.pc = "scan"
    /\ swp.r > Len(swp.snap)
    /\ swp' = [swp EXCEPT !.pc = "done"]
    /\ UNCHANGED <<rooms, bucket, removed, now, emitted, join, up, del, clr, dl, hubVars>>

-----------------------------------------------------------------------------
(* GET /api/rooms/:roomCode *)

GetIdle == [pc |-> "idle", by |-> 0, roomCode |-> "", id |-> 0, status |-> 0,
            isAdmin |-> FALSE, files |-> <<>>, texts |-> <<>>]

\* who sends the GET and for which room: any caller without a browser (0)
\* for any room code, and a browser in a room, whose handler of
\* 'files-expired' calls loadRoomData(this.currentRoom)
GetCalls ==
    {<<0, roomCode>> : roomCode \in RoomCodes}
      \cup {<<c, client[c].currentRoom>> :
                c \in {d \in Conns : client[d].connected /\ client[d].currentRoom # ""}}

\* const room = await Room.findOne({ roomCode }); none: 404;
\* another code than 'RAMRAM': res.json({ success: true, room, isAdmin: false })
GetFind ==
    /\ get.pc = "idle"
    /\ \E call \in GetCalls :
          LET roomCode == call[2]
              id == FindOne(roomCode)
              base == [get EXCEPT !.by = call[1], !.roomCode = roomCode]
          IN
          get' = IF id = 0
                 THEN [base EXCEPT !.pc = "done", !.status = 404]
                 ELSE IF roomCode = RAMRAM
                 THEN [base EXCEPT !.pc = "all", !.id = id,
                                   !.texts = rooms[id].texts]
                 ELSE [base EXCEPT !.pc = "done", !.id = id, !.status = 200,
                                   !.isAdmin = FALSE,
                                   !.files = rooms[id].files,
                                   !.texts = rooms[id].texts]
    /\ UNCHANGED <<rooms, bucket, removed, now, emitted, join, up, del, clr, dl, swp,
                   members, inbox, client, txt, live>>

\* if (roomCode === 'RAMRAM') { const allRooms = await Room.find({});
\* allFiles = allRooms.flatMap(room => room.files);
\* res.json({ success: true, room, allFiles, isAdmin: true }) }
GetAll ==
    /\ get.pc = "all"
    /\ get' = [get EXCEPT !.pc = "done", !.status = 200, !.isAdmin = TRUE,
                          !.files = FlatFiles(rooms, 1)]
    /\ UNCHANGED <<rooms, bucket, removed, now, emitted, join, up, del, clr, dl, swp,
                   members, inbox, client, txt, live>>

-----------------------------------------------------------------------------
(* The browser (src/public/js/app.js) and the socket handlers it drives *)

ClientIdle == [currentRoom |-> "", text |-> "", files |-> <<>>, users |-> <<>>,
               connected |-> TRUE]

\* the text the browser shows the first element of instead of the last,
\* the mutant of ShownText
ShownFirstText(prev, texts) ==
    IF Len(texts) > 0 THEN texts[1].content ELSE prev

\* loadRoomData: if (data.room.texts.length > 0)
\*   sharedText.value = data.room.texts[data.room.texts.length - 1].content;
\* prev is what the text area showed before
ShownText(prev, texts) ==
    IF Len(texts) > 0 THEN texts[Len(texts)].content ELSE prev

\* joinRoom() after a successful POST /api/rooms: this.currentRoom = code;
\* showRoomScreen() (sharedText.value = ''); this.socket.emit('join-room', code);
\* loadRoomData(code, data).  The server's handler of 'join-room':
\* socket.join(roomCode); socket.to(roomCode).emit('user-joined', socket.id);
\* socket.emit('users-in-room', getUsersInRoom(roomCode))
ClientJoined(p) ==
    /\ join[p].pc = "done"
    /\ join[p].status = 200
    /\ join[p].by # 0
    /\ client[join[p].by].connected
    /\ join' = [join EXCEPT ![p] = [@ EXCEPT !.pc = "joined"]]
    /\ LET c == join[p].by
           roomCode == join[p].roomCode
           joined == Event("user-joined", roomCode, c)
           others == Recipients(roomCode, c)
           shown == [client EXCEPT ![c] = [@ EXCEPT
                                          !.currentRoom = roomCode,
                                          !.text = ShownText("", join[p].texts),
                                          !.files = ShownFiles(join[p].files),
                                          !.users = <<>>]]
       IN
       /\ members' = [members EXCEPT ![roomCode] = @ \cup {c}]
       /\ LET users == Event("users-in-room", roomCode, getUsersInRoom(roomCode)') IN
          /\ emitted' = emitted \o <<joined, users>>
          /\ inbox' = Received(Received(inbox, others, joined), {c}, users)
          /\ client' = Handled(Handled(shown, others, joined), {c}, users)
    /\ UNCHANGED <<rooms, bucket, removed, now, up, del, clr, dl, swp, txt, get, live>>

\* leaveRoom(): if (this.currentRoom) this.socket.emit('leave-room',
\* this.currentRoom); showHomeScreen() (this.currentRoom = null).  The
\* server's handler of 'leave-room': socket.leave(roomCode);
\* socket.to(roomCode).emit('user-left', socket.id)
ClientLeave(c) ==
    /\ client[c].connected
    /\ client[c].currentRoom # ""
    /\ LET roomCode == client[c].currentRoom
           left == Event("user-left", roomCode, c)
           others == Recipients(roomCode, c)
       IN
       /\ members' = [members EXCEPT ![roomCode] = @ \ {c}]
       /\ emitted' = Append(emitted, left)
       /\ inbox' = Received(inbox, others, left)
       /\ client' = Handled([client EXCEPT ![c].currentRoom = ""], others, left)
    /\ UNCHANGED <<rooms, bucket, removed, now, join, up, del, clr, dl, swp, txt, get, live>>

\* loadRoomData(this.currentRoom) once the GET has answered 200: the text area
\* is set from the texts of the answer, and the files of the answer (allFiles
\* for 'RAMRAM') are appended to the file list, which is not emptied first
ClientRefreshed ==
    /\ get.pc = "done"
    /\ get.status = 200
    /\ get.by # 0
    /\ client[get.by].connected
    /\ client' = [client EXCEPT ![get.by] = [@ EXCEPT
                      !.text = ShownText(@, get.texts),
                      !.files = @ \o ShownFiles(get.files)]]
    /\ get' = [get EXCEPT !.pc = "shown"]
    /\ UNCHANGED <<rooms, bucket, removed, now, emitted, join, up, del, clr, dl, swp,
                   members, inbox, txt, live>>

\* uploadFiles() once the upload has answered success:
\* data.files.forEach(file => this.addFileToList(file.originalName,
\* file.filename)), after the 'new-files' event of the same upload
ClientUploaded(p) ==
    /\ up[p].pc = "done"
    /\ up[p].status = 200
    /\ up[p].by # 0
    /\ client[up[p].by].connected
    /\ client' = [client EXCEPT ![up[p].by].files = @ \o ShownFiles(up[p].uploaded)]
    /\ up' = [up EXCEPT ![p] = [@ EXCEPT !.pc = "shown"]]
    /\ UNCHANGED <<rooms, bucket, removed, now, emitted, join, del, clr, dl, swp,
                   members, inbox, txt, get, live>>

\* fileElement.remove(): the item whose Delete button was clicked leaves the
\* file list, if it is still there
WithoutOne(shown, filename) ==
    IF \E k \in 1..Len(shown) : shown[k] = filename
    THEN LET k == CHOOSE j \in 1..Len(shown) :
                     /\ shown[j] = filename
                     /\ \A i \in 1..(j - 1) : shown[i] # filename
         IN SubSeq(shown, 1, k - 1) \o SubSeq(shown, k + 1, Len(shown))
    ELSE shown

\* deleteFile() after the DELETE answered success: fileElement.remove();
\* this.socket.emit('file-deleted', { roomCode, filename }).  The server's
\* handler: socket.to(data.roomCode).emit('file-deleted', data)
FileDeleted ==
    /\ del.pc = "done"
    /\ del.status = 200
    /\ del.by # 0
    /\ client[del.by].connected
    /\ LET e == Event("file-deleted", del.roomCode,
                      [roomCode |-> del.roomCode, filename |-> del.filename])
           rcpt == Recipients(del.roomCode, del.by)
           removed1 == [client EXCEPT ![del.by].files = WithoutOne(@, del.filename)]
       IN
       /\ emitted' = Append(emitted, e)
       /\ inbox' = Received(inbox, rcpt, e)
       /\ client' = Handled(removed1, rcpt, e)
    /\ del' = [del EXCEPT !.pc = "notified"]
    /\ UNCHANGED <<rooms, bucket, removed, now, join, up, clr, dl, swp,
                   members, txt, get, live>>

\* a disconnect that leaves the socket in its rooms, the mutant of LeaveAll
LeaveNone(mem, c) == mem

\* what socket.io does to the rooms when a socket disconnects: the socket
\* leaves every room it had joined
LeaveAll(mem, c) == [roomCode \in RoomCodes |-> mem[roomCode] \ {c}]

\* the connection of a socket is lost or its page is closed without
\* 'leave-room'; the server registers no 'disconnect' handler, so nothing is
\* emitted, and the browser does nothing further
Disconnect(c) ==
    /\ client[c].connected
    /\ members' = LeaveAll(members, c)
    /\ client' = [client EXCEPT ![c].connected = FALSE]
    /\ UNCHANGED <<rooms, bucket, removed, now, emitted, join, up, del, clr, dl, swp,
                   inbox, txt, get, live>>

-----------------------------------------------------------------------------
(* socket.on('send-text', async (data) => { ... }) *)

TxtIdle == [pc |-> "idle", by |-> 0, roomCode |-> "", text |-> "", id |-> 0,
            wasMember |-> FALSE]

\* the 'input' listener of the text area emits 'send-text' with
\* { roomCode: this.currentRoom, text }, the text area then shows text; a
\* socket can send the event for any room code.  The handler starts with
\* const room = await Room.findOne({ roomCode: data.roomCode })
TxtFind(t) ==
    /\ txt[t].pc = "idle"
    /\ \E c \in Conns, roomCode \in RoomCodes, text \in Texts :
          LET id == FindOne(roomCode) IN
          /\ client[c].connected
          /\ txt' = [txt EXCEPT ![t] = [@ EXCEPT
                        !.pc = IF id = 0 THEN "emit" ELSE "save",
                        !.by = c, !.roomCode = roomCode, !.text = text,
                        !.id = id, !.wasMember = (c \in members[roomCode])]]
          /\ client' = IF client[c].currentRoom = roomCode
                       THEN [client EXCEPT ![c].text = text]
                       ELSE client
    /\ UNCHANGED <<rooms, bucket, removed, now, emitted, join, up, del, clr, dl, swp,
                   members, inbox, get, live>>

\* if (room) { room.texts.push({ content: data.text, addedBy: socket.id });
\* await room.save(); }: a $push of the new element
TxtSave(t) ==
    /\ txt[t].pc = "save"
    /\ rooms' = [rooms EXCEPT ![txt[t].id] = [@ EXCEPT
                    !.texts = Append(@, [content |-> txt[t].text,
                                         addedBy |-> txt[t].by,
                                         addedAt |-> now]),
                    !.v = @ + 1]]
    /\ txt' = [txt EXCEPT ![t] = [@ EXCEPT !.pc = "emit"]]
    /\ UNCHANGED <<bucket, removed, now, emitted, join, up, del, clr, dl, swp,
                   members, inbox, client, get, live>>

\* socket.to(data.roomCode).emit('receive-text', data), whether or not a
\* room was found; nothing is sent back to the sender
TxtEmit(t) ==
    /\ txt[t].pc = "emit"
    /\ Emit("receive-text", txt[t].roomCode, txt[t].by,
            [roomCode |-> txt[t].roomCode, text |-> txt[t].text])
    /\ txt' = [txt EXCEPT ![t] = [@ EXCEPT !.pc = "done"]]
    /\ UNCHANGED <<rooms, bucket, removed, now, join, up, del, clr, dl, swp,
                   members, get, live>>

-----------------------------------------------------------------------------
(* The clock *)

Tick ==
    /\ now < MaxTime
    /\ now' = now + 1
    /\ UNCHANGED <<rooms, bucket, removed, emitted, join, up, del, clr, dl, swp, hubVars>>

-----------------------------------------------------------------------------
(* Specifications *)

\* what the n-th upload, of one file at time t, leaves in its room and in
\* the bucket
SeedFile(t, n, originalname) ==
    [filename |-> <<t, <<0, n>>, originalname>>, originalName |-> originalname,
     uploadTime |-> t, fileSize |-> 2048]

SeedBlob(roomCode, t, n, originalname, data) ==
    [filename |-> <<t, <<0, n>>, originalname>>, data |-> data,
     originalName |-> originalname, roomCode |-> roomCode]

SeedRoom(roomCode, files) ==
    [roomCode |-> roomCode, createdAt |-> 0, files |-> files, texts |-> <<>>,
     v |-> Len(files)]

\* the files POST /api/rooms answers a join of roomCode with
AnsweredFiles(rs, roomCode) ==
    IF roomCode = RAMRAM THEN FlatFiles(rs, 1)
    ELSE IF \E r \in 1..Len(rs) : rs[r].roomCode = roomCode
    THEN rs[CHOOSE r \in 1..Len(rs) : rs[r].roomCode = roomCode].files
    ELSE <<>>

\* every request idle, the database as given, the browser of socket c in
\* the room at[c] it has joined ("" for the home screen), n 'send-text'
\* events to come
StartWith(rs, bk, t, at, n) ==
    /\ rooms = rs
    /\ bucket = bk
    /\ removed = {}
    /\ now = t
    /\ emitted = <<>>
    /\ join = [p \in 1..NumJoin |-> JoinIdle]
    /\ up = [p \in 1..NumUp |-> UpIdle]
    /\ dl = DlIdle
    /\ del = DelIdle
    /\ clr = ClrIdle
    /\ swp = SwpIdle
    /\ members = [roomCode \in RoomCodes |-> {c \in Conns : at[c] = roomCode}]
    /\ inbox = [c \in Conns |-> <<>>]
    /\ client = [c \in Conns |->
                   [ClientIdle EXCEPT !.currentRoom = at[c],
                                      !.files = ShownFiles(AnsweredFiles(rs, at[c])),
                                      !.users = IF at[c] = "" THEN <<>>
                                                ELSE ListOf({d \in Conns : at[d] = at[c]})]]
    /\ txt = [h \in 1..n |-> TxtIdle]
    /\ get = GetIdle
    /\ live = [c \in RoomCodes |->
                IF \E r \in 1..Len(rs) : rs[r].roomCode = c
                THEN Names(rs[CHOOSE r \in 1..Len(rs) : rs[r].roomCode = c].files)
                ELSE {}]

\* the same with NumTxt 'send-text' events to come
StartIn(rs, bk, t, at) == StartWith(rs, bk, t, at, NumTxt)

\* every browser on its home screen
Start(rs, bk, t) == StartIn(rs, bk, t, [c \in Conns |-> ""])

\* POST /api/rooms on an empty database
InitJoin == Start(<<>>, {}, 0)

NextJoin ==
    \/ \E p \in 1..NumJoin : JoinFind(p)
    \/ \E p \in 1..NumJoin : JoinSave(p)
    \/ \E p \in 1..NumJoin : JoinRespond(p)

SpecJoin == InitJoin /\ [][NextJoin]_vars

\* uploads and downloads; two rooms exist, without files
InitUpload ==
    Start(<<SeedRoom("AB12CD", <<>>), SeedRoom(RAM123, <<>>)>>, {}, 0)

NextUpload ==
    \/ \E p \in 1..NumUp : UpStart(p)
    \/ \E p \in 1..NumUp : UpWrite(p)
    \/ \E p \in 1..NumUp : UpWriteFails(p)
    \/ \E p \in 1..NumUp : UpSave(p)
    \/ \E p \in 1..NumUp : UpEmit(p)
    \/ \E p \in 1..NumUp : UpSaveFails(p)
    \/ DlFind
    \/ DlStream

SpecUpload == InitUpload /\ [][NextUpload]_vars

\* a database in which every room has been uploaded to: each file a room
\* lists is stored in the bucket
SeededRooms(late) ==
    << SeedRoom("AB12CD", <<SeedFile(0, 1, "report.pdf")>>),
       SeedRoom(RAM123, <<SeedFile(0, 2, "vault.zip")>>),
       SeedRoom("XY99ZZ", <<SeedFile(0, 3, "notes.txt")>>
                            \o (IF late THEN <<SeedFile(1, 5, "late.txt")>> ELSE <<>>)),
       SeedRoom(RAMRAM, <<SeedFile(0, 4, "admin.txt")>>) >>

SeededBucket(late) ==
    { SeedBlob("AB12CD", 0, 1, "report.pdf", "d1"),
      SeedBlob(RAM123, 0, 2, "vault.zip", "d2"),
      SeedBlob("XY99ZZ", 0, 3, "notes.txt", "d1"),
      SeedBlob(RAMRAM, 0, 4, "admin.txt", "d2") }
      \cup (IF late THEN {SeedBlob("XY99ZZ", 1, 5, "late.txt", "d2")} ELSE {})

\* deletes and downloads on the seeded database
InitDelete == Start(SeededRooms(FALSE), SeededBucket(FALSE), 0)

NextDelete ==
    \/ DelStart
    \/ DelBlob
    \/ DelBlobFails
    \/ DelSave
    \/ DelSaveFails
    \/ DlFind
    \/ DlStream

SpecDelete == InitDelete /\ [][NextDelete]_vars

\* the cleanup job on the seeded database, as the clock advances
InitSweep == \E late \in BOOLEAN : Start(SeededRooms(late), SeededBucket(late), 1)

NextSweep ==
    \/ SwpStart
    \/ SwpSkip
    \/ SwpFile
    \/ SwpFileFails
    \/ SwpSave
    \/ SwpSaveFails
    \/ SwpEnd
    \/ Tick

SpecSweep == InitSweep /\ [][NextSweep]_vars

\* the cleanup job while one upload request is served; no operation of the
\* job is rejected by the database
NextSweepRace ==
    \/ SwpStart
    \/ SwpSkip
    \/ SwpFile
    \/ SwpSave
    \/ SwpEnd
    \/ Tick
    \/ UpStart(1)
    \/ UpWrite(1)
    \/ UpSave(1)
    \/ UpEmit(1)

SpecSweepRace == InitSweep /\ [][NextSweepRace]_vars

\* a clear-all request racing one upload request and a download
InitClear ==
    Start(<< SeedRoom("AB12CD", <<SeedFile(0, 1, "report.pdf")>>),
             SeedRoom(RAMRAM, <<>>) >>,
          { SeedBlob("AB12CD", 0, 1, "report.pdf", "d1") }, 0)

NextClear ==
    \/ ClrStart
    \/ ClrDropFails
    \/ ClrUpdate
    \/ ClrUpdateFails
    \/ ClrRespond
    \/ UpStart(1)
    \/ UpWrite(1)
    \/ UpWriteFails(1)
    \/ UpSave(1)
    \/ UpEmit(1)
    \/ UpSaveFails(1)
    \/ DlFind
    \/ DlStream

SpecClear == InitClear /\ [][NextClear]_vars

\* the shared text: two rooms exist, without files or texts; socket 1 is in
\* 'AB12CD' and the others are together in 'AB12CD', in 'RAM123' or on the
\* home screen
InitText ==
    \E second \in {"AB12CD", RAM123, ""} :
        StartIn(<<SeedRoom("AB12CD", <<>>), SeedRoom(RAM123, <<>>)>>, {}, 0,
                [c \in Conns |-> IF c = 1 THEN "AB12CD" ELSE second])

NextText ==
    \/ \E h \in 1..NumTxt : TxtFind(h)
    \/ \E h \in 1..NumTxt : TxtSave(h)
    \/ \E h \in 1..NumTxt : TxtEmit(h)
    \/ GetFind
    \/ ClientRefreshed
    \/ \E c \in Conns : ClientLeave(c)

SpecText == InitText /\ [][NextText]_vars

\* the relay of texts alone, as sockets leave
NextRelay ==
    \/ \E h \in 1..NumTxt : TxtFind(h)
    \/ \E h \in 1..NumTxt : TxtSave(h)
    \/ \E h \in 1..NumTxt : TxtEmit(h)
    \/ \E c \in Conns : ClientLeave(c)

SpecRelay == InitText /\ [][NextRelay]_vars

\* room reads (GET /api/rooms/:roomCode and POST /api/rooms) while files are
\* deleted: 'AB12CD' lists two files, 'RAM123' and 'RAMRAM' one each, and
\* 'XY99ZZ' does not exist yet
ReadRooms ==
    << SeedRoom("AB12CD", <<SeedFile(0, 1, "report.pdf"), SeedFile(0, 3, "notes.txt")>>),
       SeedRoom(RAM123, <<SeedFile(0, 2, "vault.zip")>>),
       SeedRoom(RAMRAM, <<SeedFile(0, 4, "admin.txt")>>) >>

ReadBucket ==
    { SeedBlob("AB12CD", 0, 1, "report.pdf", "d1"),
      SeedBlob("AB12CD", 0, 3, "notes.txt", "d1"),
      SeedBlob(RAM123, 0, 2, "vault.zip", "d2"),
      SeedBlob(RAMRAM, 0, 4, "admin.txt", "d2") }

InitRead == Start(ReadRooms, ReadBucket, 0)

NextRead ==
    \/ GetFind
    \/ GetAll
    \/ JoinFind(1)
    \/ JoinSave(1)
    \/ JoinRespond(1)
    \/ DelStart
    \/ DelBlob
    \/ DelSave

SpecRead == InitRead /\ [][NextRead]_vars

\* room reads while an upload, a delete and a clear-all are served
NextListing ==
    \/ GetFind
    \/ GetAll
    \/ UpStart(1)
    \/ UpWrite(1)
    \/ UpSave(1)
    \/ UpEmit(1)
    \/ DelStart
    \/ DelBlob
    \/ DelSave
    \/ ClrStart
    \/ ClrUpdate
    \/ ClrRespond

SpecListing == InitRead /\ [][NextListing]_vars

\* downloads while an upload and a delete are served, either of which can
\* fail half-way
NextDownload ==
    \/ DlFind
    \/ DlStream
    \/ UpStart(1)
    \/ UpWrite(1)
    \/ UpWriteFails(1)
    \/ UpSave(1)
    \/ UpSaveFails(1)
    \/ UpEmit(1)
    \/ DelStart
    \/ DelBlob
    \/ DelBlobFails
    \/ DelSave
    \/ DelSaveFails

SpecDownload == InitRead /\ [][NextDownload]_vars

\* a delete sent by a browser or by another caller, and the 'file-deleted'
\* event the browser emits afterwards, while an upload is served and browsers
\* leave; socket 1 is in 'AB12CD', the others in 'AB12CD' or in 'RAMRAM'
InitNotify ==
    \E second \in {"AB12CD", RAMRAM} :
        StartIn(ReadRooms, ReadBucket, 0,
                [c \in Conns |-> IF c = 1 THEN "AB12CD" ELSE second])

NextNotify ==
    \/ DelStart
    \/ DelBlob
    \/ DelSave
    \/ FileDeleted
    \/ \E c \in Conns : ClientLeave(c)
    \/ UpStart(1)
    \/ UpWrite(1)
    \/ UpSave(1)
    \/ UpEmit(1)

SpecNotify == InitNotify /\ [][NextNotify]_vars

\* browsers joining and leaving rooms; two rooms exist
NextHub ==
    \/ \E p \in 1..NumJoin : JoinFind(p)
    \/ \E p \in 1..NumJoin : JoinSave(p)
    \/ \E p \in 1..NumJoin : JoinRespond(p)
    \/ \E p \in 1..NumJoin : ClientJoined(p)
    \/ \E c \in Conns : ClientLeave(c)

SpecHub == InitUpload /\ [][NextHub]_vars

\* sockets disconnecting while browsers join and leave rooms and a clear-all
\* is announced to every socket
NextGone ==
    \/ \E c \in Conns : Disconnect(c)
    \/ JoinFind(1)
    \/ JoinSave(1)
    \/ JoinRespond(1)
    \/ ClientJoined(1)
    \/ \E c \in Conns : ClientLeave(c)
    \/ ClrStart
    \/ ClrUpdate
    \/ ClrRespond

SpecGone == InitText /\ [][NextGone]_vars

\* the cleanup job while browsers show the file lists of the rooms they are
\* in and reload them; socket 1 is in 'XY99ZZ', the others in 'AB12CD'
InitExpire ==
    \E late \in BOOLEAN :
        StartIn(SeededRooms(late), SeededBucket(late), 1,
                [c \in Conns |-> IF c = 1 THEN "XY99ZZ" ELSE "AB12CD"])

NextExpire ==
    \/ SwpStart
    \/ SwpSkip
    \/ SwpFile
    \/ SwpSave
    \/ SwpEnd
    \/ Tick
    \/ GetFind
    \/ GetAll
    \/ ClientRefreshed

SpecExpire == InitExpire /\ [][NextExpire]_vars

\* a clear-all request while texts are sent and sockets disconnect; 'AB12CD'
\* has a file and a text, socket 1 is in 'AB12CD', the others in 'RAMRAM'
InitFrame ==
    StartIn(<< [SeedRoom("AB12CD", <<SeedFile(0, 1, "report.pdf")>>) EXCEPT
                   !.texts = <<[content |-> "bye", addedBy |-> 1, addedAt |-> 0]>>],
               SeedRoom(RAMRAM, <<SeedFile(0, 4, "admin.txt")>>) >>,
            { SeedBlob("AB12CD", 0, 1, "report.pdf", "d1"),
              SeedBlob(RAMRAM, 0, 4, "admin.txt", "d2") }, 0,
            [c \in Conns |-> IF c = 1 THEN "AB12CD" ELSE RAMRAM])

NextFrame ==
    \/ ClrStart
    \/ ClrDropFails
    \/ ClrUpdate
    \/ ClrUpdateFails
    \/ ClrRespond
    \/ \E h \in 1..NumTxt : TxtFind(h)
    \/ \E h \in 1..NumTxt : TxtSave(h)
    \/ \E h \in 1..NumTxt : TxtEmit(h)
    \/ \E c \in Conns : Disconnect(c)

SpecFrame == InitFrame /\ [][NextFrame]_vars

\* one upload, one delete and the cleanup job on a room with a file that has
\* expired and one that has not; the other room is exempt from the cleanup
InitSerial ==
    Start(<< SeedRoom("XY99ZZ", <<SeedFile(0, 3, "notes.txt"),
                                  SeedFile(MaxTime - FILE_LIFETIME, 5, "late.txt")>>),
             SeedRoom(RAM123, <<>>) >>,
          { SeedBlob("XY99ZZ", 0, 3, "notes.txt", "d1"),
            SeedBlob("XY99ZZ", MaxTime - FILE_LIFETIME, 5, "late.txt", "d2") },
          MaxTime)

NextSerial ==
    \/ UpStart(1)
    \/ UpWrite(1)
    \/ UpSave(1)
    \/ UpSaveFails(1)
    \/ UpEmit(1)
    \/ DelStart
    \/ DelBlob
    \/ DelSave
    \/ DelSaveFails
    \/ SwpStart
    \/ SwpSkip
    \/ SwpFile
    \/ SwpSave
    \/ SwpSaveFails
    \/ SwpEnd

SpecSerial == InitSerial /\ [][NextSerial]_vars

\* 'send-text' events of the browsers of one room served at the same time;
\* every socket is in 'AB12CD', which has no text yet
InitConverge ==
    StartWith(<<SeedRoom("AB12CD", <<>>)>>, {}, 0,
              [c \in Conns |-> "AB12CD"], NumSend)

NextConverge ==
    \/ \E h \in 1..NumSend : TxtFind(h)
    \/ \E h \in 1..NumSend : TxtSave(h)
    \/ \E h \in 1..NumSend : TxtEmit(h)

SpecConverge == InitConverge /\ [][NextConverge]_vars

\* an upload sent by a browser or by another caller, and what the browsers
\* of the room show afterwards; every socket is in 'AB12CD'
InitShare ==
    StartIn(<<SeedRoom("AB12CD", <<>>), SeedRoom(RAM123, <<>>)>>, {}, 0,
            [c \in Conns |-> "AB12CD"])

NextShare ==
    \/ UpStart(1)
    \/ ClientUpload(1)
    \/ UpWrite(1)
    \/ UpSave(1)
    \/ UpEmit(1)
    \/ ClientUploaded(1)

SpecShare == InitShare /\ [][NextShare]_vars

-----------------------------------------------------------------------------
(* Claims *)

RoomsWithCode(roomCode) == {i \in 1..Len(rooms) : rooms[i].roomCode = roomCode}

\* C1: whatever the interleaving of concurrent POST /api/rooms requests for a
\* code, the Room collection never holds two documents with that roomCode, and
\* once a request that found no Room has got past its save there is exactly one.
C1_OneRoomPerCode ==
    /\ \A roomCode \in RoomCodes : Cardinality(RoomsWithCode(roomCode)) <= 1
    /\ \A p \in 1..NumJoin :
          (join[p].pc \in {"respond", "done"})
             => Cardinality(RoomsWithCode(join[p].roomCode)) = 1

\* two requests for the same brand-new code raced and both have finished
C1_Witness ==
    \E p, q \in 1..NumJoin :
        /\ p # q
        /\ join[p].pc = "done" /\ join[q].pc = "done"
        /\ join[p].roomCode = join[q].roomCode
        /\ ~join[p].found /\ ~join[q].found
        /\ Cardinality(RoomsWithCode(join[p].roomCode)) = 1

\* C2: when two POST /api/rooms requests race on a brand-new code, both end
\* with a successful response carrying the same Room.
C2_BothRacersSucceed ==
    \A p, q \in 1..NumJoin :
        ( /\ p # q
          /\ join[p].pc = "done" /\ join[q].pc = "done"
          /\ join[p].roomCode = join[q].roomCode
          /\ ~join[p].found /\ ~join[q].found )
        => /\ join[p].status = 200 /\ join[q].status = 200
           /\ join[p].id = join[q].id

\* C3: a clear-all request with any code other than 'RAMRAM' is answered 403
\* and changes nothing: the rooms, the bucket and the emitted events are as
\* before.
C3_UnauthorizedClearChangesNothing ==
    [][ (clr.pc = "idle" /\ clr'.pc # "idle" /\ clr'.roomCode # RAMRAM)
          => /\ clr'.pc = "done"
             /\ clr'.status = 403
             /\ UNCHANGED <<rooms, bucket, emitted, inbox>> ]_vars

\* a clear-all request with another code was refused while files existed
C3_Witness ==
    /\ clr.pc = "done" /\ clr.status = 403 /\ clr.roomCode = RAM123
    /\ bucket # {}
    /\ \E r \in 1..Len(rooms) : rooms[r].files # <<>>

\* C4: when a clear-all request from 'RAMRAM' answers ok, every room's file
\* list is empty and no filename that was valid before the request is still
\* stored, whatever uploads were in flight.
C4_ClearLeavesNothing ==
    [][ (clr.pc = "respond" /\ clr'.pc = "done" /\ clr'.status = 200)
          => /\ \A r \in 1..Len(rooms') : rooms'[r].files = <<>>
             /\ \A k \in clr.before : {b \in bucket' : b.filename = k} = {} ]_vars

\* C5: once a run of the cleanup job is over, no Normal room it read still
\* lists a file that was older than FILE_LIFETIME, and that file's stored file
\* is gone; the special rooms still list theirs.
C5_ExpiredGoneAfterSweep ==
    swp.pc = "done" =>
        \A r \in 1..Len(swp.snap) : \A k \in 1..Len(swp.snap[r].files) :
            LET file == swp.snap[r].files[k] IN
            Expired(file, swp.now) =>
                IF swp.snap[r].roomCode \in {RAM123, RAMRAM}
                THEN HasRecord(r, file.filename) /\ BucketFind(file.filename) # {}
                ELSE ~HasRecord(r, file.filename) /\ BucketFind(file.filename) = {}

\* C6: when the write of one file of an upload fails, every file of the
\* request whose write succeeded is listed by the room and the request is
\* answered with them.
C6_PerFileIsolation ==
    \A p \in 1..NumUp :
        (up[p].pc = "done" /\ up[p].failedAt # 0) =>
            \A i \in 1..Len(up[p].uploaded) :
                /\ up[p].status = 200
                /\ HasRecord(up[p].id, up[p].uploaded[i].filename)

\* C7: a delete request that fails leaves the stored file and the room's
\* record of it both in place.
C7_FailedDeleteLeavesBoth ==
    (del.pc = "done" /\ del.status = 500 /\ del.hadBlob /\ del.hadRecord) =>
        /\ BucketFind(del.filename) # {}
        /\ HasRecord(del.id, del.filename)

\* C8: when the save of one room fails during a run of the cleanup job, the
\* rooms after it are still examined: once the run is over none of them lists
\* an expired file.
C8_SweepSurvivesWriteFailure ==
    (swp.pc = "done" /\ swp.error \in {"save", "VersionError"}) =>
        \A r \in (swp.failedAt + 1)..Len(swp.snap) :
            ~Exempt(swp.snap[r].roomCode) =>
                \A k \in 1..Len(rooms[r].files) :
                    ~Expired(rooms[r].files[k], swp.now)

\* C9: for every upload answered 200, each stored file it reports holds the
\* bytes of the file uploaded, and a download of its filename returns them,
\* unless a delete, the cleanup job or a clear-all has removed it.
C9_DownloadReturnsUpload ==
    \A p \in 1..NumUp :
        (up[p].pc = "done" /\ up[p].status = 200) =>
            \A i \in 1..Len(up[p].uploaded) :
                LET key == up[p].uploaded[i].filename IN
                key \notin removed =>
                    /\ BucketFind(key) # {}
                    /\ \A b \in BucketFind(key) : b.data = up[p].files[i].buffer
                    /\ (dl.pc = "done" /\ dl.filename = key) =>
                          (dl.status = 200 /\ dl.data = up[p].files[i].buffer)

\* the second file of a two-file upload has been downloaded
C9_Witness ==
    \E p \in 1..NumUp :
        /\ up[p].pc = "done" /\ up[p].status = 200
        /\ Len(up[p].uploaded) = 2
        /\ up[p].files[1].buffer # up[p].files[2].buffer
        /\ dl.pc = "done" /\ dl.status = 200
        /\ dl.filename = up[p].uploaded[2].filename

\* C10: an upload request carrying a file of FileSizeLimit bytes or more is
\* refused with LIMIT_FILE_SIZE before the handler runs: it reads no room,
\* writes no stored file and no record; every stored file comes from a request
\* that passed the limit.
C10_OversizeRejected ==
    /\ \A p \in 1..NumUp :
          ( /\ up[p].pc # "idle"
            /\ \E k \in 1..Len(up[p].files) : up[p].files[k].size >= FileSizeLimit )
          => /\ up[p].pc = "done"
             /\ up[p].error = "LIMIT_FILE_SIZE"
             /\ up[p].status >= 400
             /\ up[p].id = 0
             /\ up[p].uploaded = <<>>
    /\ \A b \in bucket : \E p \in 1..NumUp : \E i \in 1..Len(up[p].uploaded) :
          /\ up[p].uploaded[i].filename = b.filename
          /\ up[p].uploaded[i].fileSize < FileSizeLimit
    /\ \A r \in 1..Len(rooms) : \A k \in 1..Len(rooms[r].files) :
          rooms[r].files[k].fileSize < FileSizeLimit

\* a request whose largest file has exactly FileSizeLimit bytes was refused
C10_Witness ==
    \E p \in 1..NumUp :
        /\ up[p].pc = "done" /\ up[p].error = "LIMIT_FILE_SIZE"
        /\ Len(up[p].files) = 2
        /\ \A k \in 1..Len(up[p].files) : up[p].files[k].size <= FileSizeLimit
        /\ bucket = {}

LastContent(texts) == IF Len(texts) > 0 THEN texts[Len(texts)].content ELSE ""

\* C11: the text a browser shows once it has joined a room or refreshed it is
\* the content of the last element of the texts the server answered with, and
\* is empty when the answer has no texts.
C11_ShownTextIsLastRevision ==
    [][ /\ (get.pc = "done" /\ get'.pc = "shown")
            => client'[get.by].text = LastContent(get.texts)
        /\ \A p \in 1..NumJoin :
              (join[p].pc = "done" /\ join'[p].pc = "joined")
                 => client'[join[p].by].text = LastContent(join[p].texts) ]_vars

\* the file records of a list, as a set
Records(files) == {files[k] : k \in 1..Len(files)}

\* files is the lists of all rooms put together: the same records, as many
AllRoomsFiles(files) ==
    /\ Records(files) = UNION {Records(rooms[r].files) : r \in 1..Len(rooms)}
    /\ Len(files) = Cardinality(UNION {{<<r, k>> : k \in 1..Len(rooms[r].files)} :
                                          r \in 1..Len(rooms)})

\* no record of files is listed by another room than rooms[id]
OwnFilesOnly(id, files) ==
    \A k \in 1..Len(files) : \A r \in 1..Len(rooms) :
        r # id => ~HasRecord(r, files[k].filename)

\* C12: GET /api/rooms/RAMRAM answers isAdmin true with the file lists of all
\* rooms put together; for every other code, 'RAM123' included, both GET
\* /api/rooms/:roomCode and POST /api/rooms answer isAdmin false with the
\* room's own list, in which no other room's file appears.
C12_AdminSeesAllOthersOwn ==
    [][ /\ (get.pc = "all" /\ get'.pc = "done")
            => /\ get'.status = 200 /\ get'.isAdmin
               /\ AllRoomsFiles(get'.files)
        /\ (get.pc = "idle" /\ get'.pc = "done" /\ get'.status = 200)
            => /\ get'.roomCode # RAMRAM
               /\ ~get'.isAdmin
               /\ get'.files = rooms[get'.id].files
               /\ OwnFilesOnly(get'.id, get'.files)
        /\ \A p \in 1..NumJoin :
              (join[p].pc = "respond" /\ join'[p].pc = "done"
                 /\ join[p].roomCode # RAMRAM)
                 => /\ ~join'[p].isAdmin
                    /\ OwnFilesOnly(join[p].id, join'[p].files) ]_vars

\* the admin room was read and answered with the files of three rooms, and
\* the vault was joined and answered with its one file
C12_Witness ==
    /\ get.pc = "done" /\ get.roomCode = RAMRAM /\ get.isAdmin
    /\ Len(get.files) = 4
    /\ join[1].pc = "done" /\ join[1].roomCode = RAM123 /\ ~join[1].isAdmin
    /\ Len(join[1].files) = 1

\* C13: GET /api/rooms/R for a room R other than 'RAMRAM' lists exactly the
\* files that uploads to R have saved and that no delete, cleanup or
\* clear-all has removed since, each once.
C13_ListsExactlyLiveFiles ==
    [][ (get.pc = "idle" /\ get'.pc = "done" /\ get'.status = 200)
           => /\ Names(get'.files) = live[get'.roomCode]
              /\ Len(get'.files) = Cardinality(Names(get'.files)) ]_vars

\* C14: when a socket joined to room R sends 'send-text' for R, the handler's
\* emit appends 'receive-text' with the text sent to the inbox of every
\* other socket joined to R at that moment, whose browser then shows it, and
\* to no other inbox: the sender's own is left as it was.
C14_TextReachesOthersNotSender ==
    [][ \A h \in 1..NumTxt :
          (txt[h].pc = "emit" /\ txt'[h].pc = "done" /\ txt[h].wasMember)
             => \A c \in Conns :
                   IF c \in members[txt[h].roomCode] /\ c # txt[h].by
                   THEN /\ Len(inbox'[c]) = Len(inbox[c]) + 1
                        /\ inbox'[c][Len(inbox'[c])].ev = "receive-text"
                        /\ inbox'[c][Len(inbox'[c])].payload.text = txt[h].text
                        /\ client'[c].text = txt[h].text
                   ELSE inbox'[c] = inbox[c] ]_vars

\* a socket in a room sent a text, another socket of the room has received
\* it and the sender has received nothing
C14_Witness ==
    \E h \in 1..NumTxt : \E c \in Conns :
        /\ txt[h].pc = "done" /\ txt[h].wasMember /\ txt[h].id # 0
        /\ c # txt[h].by
        /\ c \in members[txt[h].roomCode]
        /\ Len(inbox[c]) > 0
        /\ inbox[c][Len(inbox[c])].ev = "receive-text"
        /\ inbox[c][Len(inbox[c])].payload.text = txt[h].text
        /\ inbox[txt[h].by] = <<>>

\* an upload request has just been read for a room code no Room has
UploadToNoRoom(p) ==
    /\ up[p].pc = "idle" /\ up'[p].pc # "idle"
    /\ RoomsWithCode(up'[p].roomCode) = {}

\* C15: every upload request for a room code without a Room is answered 404
\* and changes nothing: no stored file, no room, no record, no event.
C15_NoRoomIsNotFound ==
    [][ \A p \in 1..NumUp :
          UploadToNoRoom(p)
             => /\ up'[p].pc = "done" /\ up'[p].status = 404
                /\ UNCHANGED <<rooms, bucket, emitted, inbox>> ]_vars

\* C15, amended: an upload request for a room code without a Room changes
\* nothing and is refused: with 404 when it carries at least one file and
\* every file is below the size limit, by multer (500) when a file reaches
\* the limit, with 400 when it carries no file.
C15_NoRoomRefusedWithoutEffect ==
    [][ \A p \in 1..NumUp :
          UploadToNoRoom(p)
             => /\ up'[p].pc = "done"
                /\ up'[p].status =
                      IF \E k \in 1..Len(up'[p].files) : up'[p].files[k].size >= FileSizeLimit
                      THEN 500
                      ELSE IF Len(up'[p].files) = 0 THEN 400 ELSE 404
                /\ UNCHANGED <<rooms, bucket, emitted, inbox>> ]_vars

\* two files below the limit were sent to a code without a Room and refused
\* with 404, and nothing is stored
C15_Witness ==
    \E p \in 1..NumUp :
        /\ up[p].pc = "done" /\ up[p].status = 404
        /\ RoomsWithCode(up[p].roomCode) = {}
        /\ Len(up[p].files) = 2
        /\ \A k \in 1..2 : up[p].files[k].size < FileSizeLimit
        /\ bucket = {} /\ emitted = <<>>

\* C16: a 'send-text' for a room code without a Room is answered to its
\* sender (NotFound) and has no other effect: no text is appended and no
\* other socket is sent anything.
C16_TextToNoRoomIsNotFound ==
    [][ \A h \in 1..NumTxt :
          (txt[h].pc = "emit" /\ txt'[h].pc = "done" /\ txt[h].id = 0)
             => /\ Len(inbox'[txt[h].by]) > Len(inbox[txt[h].by])
                /\ \A c \in Conns \ {txt[h].by} : inbox'[c] = inbox[c]
                /\ emitted' = emitted
                /\ UNCHANGED rooms ]_vars

\* the stored files with a filename
Stored(filename) == {b \in bucket : b.filename = filename}

\* some room lists the filename
Listed(filename) == \E r \in 1..Len(rooms) : HasRecord(r, filename)

\* C17: a download is answered 404 exactly when the bucket stores no file
\* with the filename, and otherwise streams the stored file's bytes as long
\* as it is still stored; whether a room lists the filename plays no part.
C17_DownloadFollowsBucket ==
    [][ /\ (dl.pc = "idle" /\ dl'.pc # "idle")
            => IF Stored(dl'.filename) = {}
               THEN dl'.pc = "done" /\ dl'.status = 404
               ELSE dl'.pc = "stream"
        /\ (dl.pc = "stream" /\ dl'.pc = "done" /\ Stored(dl.filename) # {})
            => /\ dl'.status = 200
               /\ \A b \in Stored(dl.filename) : dl'.data = b.data ]_vars

\* a file that no room lists, left behind by an upload whose save failed, has
\* been downloaded
C17_Witness ==
    /\ dl.pc = "done" /\ dl.status = 200
    /\ up[1].pc = "done" /\ up[1].status = 500
    /\ Stored(dl.filename) # {}
    /\ ~Listed(dl.filename)

C19_NewFilesToMembersAfterSave ==
    [][ \A p \in 1..NumUp :
          (up[p].pc = "emit" /\ up'[p].pc = "done")
             => /\ \A c \in Conns :
                      IF c \in members[up[p].roomCode]
                      THEN /\ Len(inbox'[c]) = Len(inbox[c]) + 1
                           /\ inbox'[c][Len(inbox'[c])].ev = "new-files"
                           /\ inbox'[c][Len(inbox'[c])].payload = up[p].uploaded
                      ELSE inbox'[c] = inbox[c]
                /\ \A i \in 1..Len(up[p].uploaded) :
                      \/ HasRecord(up[p].id, up[p].uploaded[i].filename)
                      \/ up[p].uploaded[i].filename \in removed
                /\ up'[p].status = 200 ]_vars

\* an upload of two files has been answered: a socket of the room has been
\* sent both records, a socket of another room nothing
C19_Witness ==
    \E c, d \in Conns :
        /\ up[1].pc = "done" /\ up[1].status = 200 /\ Len(up[1].uploaded) = 2
        /\ c \in members[up[1].roomCode]
        /\ d \notin members[up[1].roomCode]
        /\ Len(inbox[c]) > 0
        /\ inbox[c][Len(inbox[c])].ev = "new-files"
        /\ inbox[c][Len(inbox[c])].payload = up[1].uploaded
        /\ inbox[d] = <<>>
        /\ \A i \in 1..2 : HasRecord(up[1].id, up[1].uploaded[i].filename)

\* the room codes a socket is joined to
JoinedRooms(c) == {roomCode \in RoomCodes : c \in members[roomCode]}

\* C20: however a browser joins and leaves, its socket is joined to at most
\* one room code at a time.
C20_AtMostOneRoom ==
    \A c \in Conns : Cardinality(JoinedRooms(c)) <= 1

\* C21: when the server handles 'join-room' of socket c for room R, c is
\* added to the sockets joined to R; every socket that was joined to R
\* before is sent 'user-joined' with c and nothing else; c is sent no
\* 'user-joined' but one 'users-in-room' listing exactly the sockets joined
\* to R after the join.
C21_JoinNotifiesAndReplies ==
    [][ \A p \in 1..NumJoin :
          (join[p].pc = "done" /\ join'[p].pc = "joined")
             => LET c == join[p].by
                    R == join[p].roomCode
                IN
                /\ members' = [members EXCEPT ![R] = @ \cup {c}]
                /\ \A d \in Conns \ {c} :
                      IF d \in members[R]
                      THEN /\ Len(inbox'[d]) = Len(inbox[d]) + 1
                           /\ inbox'[d][Len(inbox'[d])].ev = "user-joined"
                           /\ inbox'[d][Len(inbox'[d])].payload = c
                      ELSE inbox'[d] = inbox[d]
                /\ Len(inbox'[c]) = Len(inbox[c]) + 1
                /\ inbox'[c][Len(inbox'[c])].ev = "users-in-room"
                /\ inbox'[c][Len(inbox'[c])].payload = members'[R] ]_vars

\* a socket has joined a room another socket was in: the earlier one was
\* sent 'user-joined', the joiner a list with both
C21_Witness ==
    \E p \in 1..NumJoin : \E d \in Conns :
        LET c == join[p].by IN
        /\ join[p].pc = "joined"
        /\ d # c
        /\ Len(inbox[c]) > 0 /\ Len(inbox[d]) > 0
        /\ inbox[c][Len(inbox[c])].ev = "users-in-room"
        /\ inbox[c][Len(inbox[c])].payload = {c, d}
        /\ inbox[d][Len(inbox[d])].ev = "user-joined"
        /\ inbox[d][Len(inbox[d])].payload = c

\* the sockets that have disconnected
Gone == {c \in Conns : ~client[c].connected}

Quiet ==
    /\ \A p \in 1..NumUp : up[p].pc \in {"idle", "done"}
    /\ del.pc \in {"idle", "done", "notified"}
    /\ clr.pc \in {"idle", "done"}
    /\ swp.pc \in {"idle", "done"}

\* the filenames that a room lists or the bucket stores
KnownFilenames ==
    UNION {Names(rooms[r].files) : r \in 1..Len(rooms)}
      \cup {b.filename : b \in bucket}

\* C23: whenever no request or cleanup run is under way, a room lists a
\* filename exactly when the bucket stores a file with that filename,
\* whatever uploads and deletes, failed ones included, came before.
C23_RecordsMatchBlobs ==
    Quiet => \A filename \in KnownFilenames :
                Listed(filename) <=> Stored(filename) # {}

\* the filenames a room lists after a step and did not list before it
NewlyListed(r) ==
    Names(rooms'[r].files) \ (IF r <= Len(rooms) THEN Names(rooms[r].files) ELSE {})

\* C24: a room comes to list a file only when the write of its stored file
\* has finished: at the step that saves the record the bucket already stores
\* the file, also when the write of another file of the request failed or
\* the save is never reached.
C24_RecordAfterBlob ==
    [][ \A r \in 1..Len(rooms') : \A filename \in NewlyListed(r) :
            Stored(filename) # {} ]_vars

\* an upload of two files has saved their records, both stored
C24_Witness ==
    /\ up[1].pc = "emit"
    /\ Len(up[1].uploaded) = 2
    /\ \A i \in 1..2 :
          /\ HasRecord(up[1].id, up[1].uploaded[i].filename)
          /\ Stored(up[1].uploaded[i].filename) # {}

\* the cleanup job examines the next file of the room it is at
SweepExamines ==
    /\ swp.pc = "scan" /\ swp'.pc = "scan"
    /\ swp'.r = swp.r /\ swp'.f = swp.f + 1

\* the file the cleanup job is at, and its age at the time the run started
SweptFile == swp.snap[swp.r].files[swp.f]
SweptAge == swp.now - SweptFile.uploadTime

\* the job drops the file it examines from the list it will save
SweepExpires ==
    /\ swp'.filesChanged
    /\ swp'.newFilesList = swp.newFilesList

\* the job keeps the file it examines
SweepKeeps == swp'.newFilesList = Append(swp.newFilesList, SweptFile)

\* C25: the cleanup job treats a file of a normal room as expired exactly
\* when its age is at least the lifetime, so a file whose age equals the
\* lifetime is removed.
C25_ExpiredFromLifetimeOn ==
    [][ SweepExamines =>
          IF SweptAge >= FILE_LIFETIME THEN SweepExpires ELSE SweepKeeps ]_vars

\* C25, amended: the cleanup job treats a file of a normal room as expired
\* exactly when its age is greater than the lifetime; a file whose age
\* equals the lifetime is kept.
C25_ExpiredPastLifetime ==
    [][ SweepExamines =>
          IF SweptAge > FILE_LIFETIME THEN SweepExpires ELSE SweepKeeps ]_vars

\* the job has just kept a file whose age equals the lifetime
C25_Witness ==
    /\ swp.pc = "scan"
    /\ swp.r <= Len(swp.snap)
    /\ swp.f > 1
    /\ swp.now - swp.snap[swp.r].files[swp.f - 1].uploadTime = FILE_LIFETIME
    /\ swp.newFilesList # <<>>
    /\ swp.newFilesList[Len(swp.newFilesList)] = swp.snap[swp.r].files[swp.f - 1]

\* the browser of socket c was sent 'files-expired' and has shown the answer
\* of the GET its handler sent, which read the list its room has now
ReloadedAfterExpiry(c) ==
    /\ client[c].connected
    /\ client[c].currentRoom # ""
    /\ \E k \in 1..Len(inbox[c]) : inbox[c][k].ev = "files-expired"
    /\ get.pc = "shown" /\ get.by = c
    /\ get.roomCode = client[c].currentRoom
    /\ get.files = rooms[get.id].files

\* C26: once the browser of a socket joined to a room has handled the
\* 'files-expired' that followed a cleanup of the room, its file list is the
\* room's list: no expired file is shown and no file is shown twice.
C26_ReloadShowsCurrentList ==
    \A c \in Conns :
        ReloadedAfterExpiry(c) => client[c].files = ShownFiles(rooms[get.id].files)

\* C27: no step of a clear-all request changes anything of a room but its
\* file list: every room keeps its roomCode, its createdAt and its texts,
\* all of them and in order; no room is created or deleted; and the sockets
\* joined to each room stay the same.
C27_ClearTouchesOnlyFiles ==
    [][ clr' # clr =>
          /\ Len(rooms') = Len(rooms)
          /\ \A r \in 1..Len(rooms) :
                /\ rooms'[r].roomCode = rooms[r].roomCode
                /\ rooms'[r].createdAt = rooms[r].createdAt
                /\ rooms'[r].texts = rooms[r].texts
          /\ members' = members ]_vars

\* a clear-all has emptied the list of a room that holds two texts, one of
\* them saved while the request was served, and has a socket joined
C27_Witness ==
    /\ clr.pc = "done" /\ clr.status = 200
    /\ clr.before # {}
    /\ \E r \in 1..Len(rooms) :
          /\ rooms[r].files = <<>>
          /\ Len(rooms[r].texts) = 2
          /\ members[rooms[r].roomCode] # {}

\* C28: whatever the interleaving of an upload, a delete and the cleanup job
\* on a room, the room lists exactly the files that uploads have saved and
\* that no delete or cleanup has removed since, each once: no saved record
\* is lost and no removed one comes back.
C28_ListIsWhatWasCommitted ==
    \A r \in 1..Len(rooms) :
        /\ Names(rooms[r].files) = live[rooms[r].roomCode]
        /\ Len(rooms[r].files) = Cardinality(Names(rooms[r].files))

\* an upload, a delete of a listed file and a cleanup that removed a file
\* have all been saved on the same room
C28_Witness ==
    /\ up[1].pc = "done" /\ up[1].status = 200
    /\ del.pc = "done" /\ del.status = 200 /\ del.hadRecord
    /\ del.roomCode = up[1].roomCode
    /\ swp.pc = "done"
    /\ \E k \in 1..Len(emitted) :
          emitted[k].ev = "files-expired" /\ emitted[k].to = up[1].roomCode

\* C29: a delete request for room R removes a stored file only if R's list
\* held its record when the room was read, so that no other room is left
\* listing a file whose stored file a delete naming R has removed.
C29_DeletesOnlyOwnFiles ==
    [][ (del.pc = "blob" /\ del'.pc = "save" /\ bucket' # bucket)
           => /\ del.hadRecord
              /\ \A r \in 1..Len(rooms) :
                    r # del.id => ~HasRecord(r, del.filename) ]_vars

\* C30: a 'send-text' for room R appends a text to R and delivers
\* 'receive-text' to the sockets joined to R only when the socket that sent
\* it was joined to R: a socket that never joined R causes neither.
C30_RelayOnlyFromMembers ==
    [][ \A h \in 1..NumTxt :
          /\ (txt[h].pc = "save" /\ txt'[h].pc = "emit" /\ rooms' # rooms)
                => txt[h].wasMember
          /\ (txt[h].pc = "emit" /\ txt'[h].pc = "done" /\ inbox' # inbox)
                => txt[h].wasMember ]_vars

\* every 'send-text' served so far came from a socket joined to R whose
\* browser is in R, was saved and has been relayed; at least one was
TextsSettled(R) ==
    /\ \A h \in DOMAIN txt :
          \/ txt[h].pc = "idle"
          \/ /\ txt[h].pc = "done"
             /\ txt[h].roomCode = R
             /\ txt[h].wasMember
             /\ client[txt[h].by].currentRoom = R
    /\ \E h \in DOMAIN txt : txt[h].pc = "done"

\* C31: once every text sent in a room has been saved and relayed, the
\* browser of every socket joined to the room shows the content of the
\* room's last text, also when two of them sent texts at the same time.
C31_TextsConverge ==
    \A R \in RoomCodes :
        TextsSettled(R) =>
            \A c \in members[R] :
                (client[c].connected /\ client[c].currentRoom = R)
                    => client[c].text = LastContent(rooms[FindOne(R)].texts)

\* how many items of a browser's file list have the filename
TimesShown(shown, filename) ==
    Cardinality({k \in 1..Len(shown) : shown[k] = filename})

\* C32: once the browser that sent a successful upload to room R has handled
\* the answer, the 'new-files' event having been handled by every browser of
\* the room, each browser in R, the uploading one included, shows every file
\* of the upload exactly once.
C32_UploadShownOnce ==
    \A p \in 1..NumUp :
        up[p].pc = "shown" =>
            \A c \in members[up[p].roomCode] :
                (client[c].connected /\ client[c].currentRoom = up[p].roomCode)
                    => \A i \in 1..Len(up[p].uploaded) :
                          TimesShown(client[c].files, up[p].uploaded[i].filename) = 1

\* the socket ids a browser's user list shows
UsersShown(c) == {client[c].users[k] : k \in 1..Len(client[c].users)}

\* C33: the user list shown by the browser of every socket joined to a room
\* holds exactly the sockets joined to the room, each once, whatever joins,
\* leaves and disconnections of other sockets came before.
C33_UserListIsMembers ==
    \A R \in RoomCodes : \A c \in members[R] :
        (client[c].connected /\ client[c].currentRoom = R)
            => /\ UsersShown(c) = members[R]
               /\ Len(client[c].users) = Cardinality(members[R])

====
